---- MODULE Spec2Model ----
(***************************************************************************)
(* The room server of src/server.js: the room registry `rooms`, the        *)
(* per-connection closure variable `currentRoom`, the socket.io room       *)
(* membership, the pending setTimeout callbacks, and the four socket       *)
(* handlers createRoom / joinRoom / shoot / disconnect with the delayed    *)
(* startNewRound.  Every handler runs to completion (single-threaded event *)
(* loop), so each handler is one action.                                   *)
(***************************************************************************)
EXTENDS Integers, Sequences, FiniteSets, TLC

\* ---- bounds of the model ----
NumSockets == 2      \* connections the server ever accepts
RandSteps == 2       \* Math.random() returns i/RandSteps, i in 0..RandSteps-1
MaxScore == 2        \* hits are judged while the shooter's score is below this
MaxTimers == 2       \* pending setTimeout callbacks
MaxSteps == 7        \* events (messages, connections, timer callbacks) handled in a run

\* ---- program constants ----
gridMax == 10
CodeBase == 1000
CodeSpan == 9000
KSpan == 10000
KShift == 5000
KScale == 1000
StartLives == 3
StartScore == 0

\* null (never a room code)
Null == 0
Sockets == 1..NumSockets
Names == {"ann"}
\* guessed slopes k, in thousandths: -5.000 and -4.000
Guesses == {-5000, -4000}

VARIABLES
    failed,            \* the process died of an uncaught exception
    status,            \* per socket: "none" (not yet connected), "open", "closed"
    currentRoom,       \* per socket: the closure variable currentRoom
    joined,            \* per socket: the socket.io rooms it is a member of
    rooms,             \* the registry: code -> [players, gameState]
    timers,            \* pending setTimeout callbacks, in firing order
    lastNewRound,      \* per socket: payload of the last newRound received
    lastUpdatePlayers, \* per socket: payload of the last updatePlayers received
    gotGameOver,       \* per socket: a gameOver notice has been received
    ev,                \* the event handled by the last step
    steps,             \* number of events handled so far
    out,               \* the messages emitted by the last step, in order
    gen                \* one call of createNewGameState and one judged guess,
                       \* taken on their own: position and local variables

vars == <<failed, status, currentRoom, joined, rooms, timers,
          lastNewRound, lastUpdatePlayers, gotGameOver, ev, steps, out, gen>>

serverVars == <<failed, status, currentRoom, joined, rooms, timers,
                lastNewRound, lastUpdatePlayers, gotGameOver, ev, steps, out>>

\* ---------------------------------------------------------------------
\* Arithmetic helpers
\* ---------------------------------------------------------------------
Abs(x) == IF x < 0 THEN -x ELSE x

\* Math.random() is i/RandSteps; Math.floor(Math.random() * m) for m >= 0
Rand == 0..(RandSteps - 1)
FloorRand(i, m) == (i * m) \div RandSteps

RECURSIVE gcdLoop(_, _)
gcdLoop(a, b) == IF b > 0 THEN gcdLoop(b, a % b) ELSE a

gcd(a0, b0) ==
    LET a == Abs(a0)
        b == Abs(b0)
    IN  IF b > a THEN gcdLoop(b, a) ELSE gcdLoop(a, b)

\* ---------------------------------------------------------------------
\* createNewGameState
\* ---------------------------------------------------------------------
\* Math.floor(Math.random() * (gridMax * 2 - 1)) - (gridMax - 1)
InterceptOf(i) == FloorRand(i, gridMax * 2 - 1) - (gridMax - 1)

\* Math.round((Math.random() * 10000) - 5000); Math.round(x) = floor(x + 1/2)
KOf(i) == (2 * i * KSpan - 2 * KShift * RandSteps + RandSteps) \div (2 * RandSteps)

\* the while (k_int === 0) loop ends with a nonzero draw
KDraws == {KOf(i) : i \in Rand} \ {0}

\* the for loop: for each n the positive step, then the negative step, each
\* kept when both coordinates are within the grid
RECURSIVE Candidates(_, _, _, _)
Candidates(n, baseX, baseRise, b) ==
    IF n > gridMax * 2 THEN <<>>
    ELSE LET pos == [x |-> n * baseX, y |-> (n * baseRise) + b]
             neg == [x |-> n * (-baseX), y |-> (n * (-baseRise)) + b]
             keep(p) == IF Abs(p.x) <= gridMax /\ Abs(p.y) <= gridMax
                        THEN <<p>> ELSE <<>>
         IN  keep(pos) \o keep(neg) \o Candidates(n + 1, baseX, baseRise, b)

\* filter((v, i, a) => a.findIndex(t => same point) === i): first occurrences
Dedupe(a) ==
    LET first(i) == \A j \in 1..(i - 1) : a[j] # a[i]
    IN  SelectSeq([i \in 1..Len(a) |-> [p |-> a[i], keep |-> first(i)]],
                  LAMBDA e : e.keep)

\* faulty variant of PossibleTargets: the multiplier n starts at 0
PossibleTargets_FromZero(b, k) ==
    LET commonDivisor == gcd(k, KScale)
        baseX == KScale \div commonDivisor
        baseRise == k \div commonDivisor
        d == Dedupe(Candidates(0, baseX, baseRise, b))
    IN  [i \in 1..Len(d) |-> d[i].p]

\* faulty variant of PossibleTargets: the sign of k_int is lost in baseRise
PossibleTargets_AbsRise(b, k) ==
    LET commonDivisor == gcd(k, KScale)
        baseX == KScale \div commonDivisor
        baseRise == Abs(k) \div commonDivisor
        d == Dedupe(Candidates(1, baseX, baseRise, b))
    IN  [i \in 1..Len(d) |-> d[i].p]

PossibleTargets(b, k) ==
    LET commonDivisor == gcd(k, KScale)
        baseX == KScale \div commonDivisor
        baseRise == k \div commonDivisor
        d == Dedupe(Candidates(1, baseX, baseRise, b))
    IN  [i \in 1..Len(d) |-> d[i].p]

\* One attempt with draws (ib, k, it); an empty candidate list makes the
\* function call itself again, so the value returned is the value of some
\* attempt whose list is not empty.
GeneratedStates ==
    UNION { LET b == InterceptOf(ib)
                pts == PossibleTargets(b, k)
            IN  IF Len(pts) = 0 THEN {}
                ELSE { [currentAlien |-> pts[FloorRand(it, Len(pts)) + 1],
                        cannonYIntercept |-> b] : it \in Rand }
          : <<ib, k>> \in Rand \X KDraws }

\* ---------------------------------------------------------------------
\* Registry helpers
\* ---------------------------------------------------------------------
NoRooms == [c \in {} |-> Null]

\* rooms[roomCode] is truthy
RoomExists(c) == c \in DOMAIN rooms

\* Math.floor(1000 + Math.random() * 9000)
CodeOf(i) == CodeBase + FloorRand(i, CodeSpan)
CodeDraws == {CodeOf(i) : i \in Rand}

\* faulty variant of CodeTaken: the loop accepts the first draw
CodeTaken_Never(c) == FALSE

\* the do ... while (rooms[roomCode]) loop repeats on a taken code
CodeTaken(c) == RoomExists(c)

\* gameState: null, the value a room holds before its first round
NoRound == [null |-> TRUE]

\* faulty variant of WithRound: the generated round is not stored
WithRound_NotStored(room, gs) == room

\* rooms[roomCode].gameState = newGameState
WithRound(room, gs) == [room EXCEPT !.gameState = gs]

\* the room object createRoom inserts, its creator added as first player
NewRoom(players) == [players |-> players, gameState |-> NoRound]

NewPlayer(s, name) == [id |-> s, name |-> name, lives |-> StartLives, score |-> StartScore]

\* f with key k set to v (object property assignment)
Put(f, k, v) == [x \in (DOMAIN f) \cup {k} |-> IF x = k THEN v ELSE f[x]]
\* delete f[k]
Del(f, k) == [x \in (DOMAIN f) \ {k} |-> f[x]]

\* the connected sockets in socket.io room c, given the membership jn
Members(jn, st, c) == {t \in Sockets : st[t] = "open" /\ c \in jn[t]}

\* ---------------------------------------------------------------------
\* Messages
\* ---------------------------------------------------------------------
Msg(to, event, room, payload) ==
    [to |-> to, event |-> event, room |-> room, payload |-> payload]

NoPayload == [none |-> TRUE]

\* startNewRound's payload {alien, b}
RoundPayload(gs) == [alien |-> gs.currentAlien, b |-> gs.cannonYIntercept]

\* the payload of the last message `event` to t in o, or old when there is none
LastOf(o, t, event, old) ==
    LET idx == {i \in 1..Len(o) : o[i].event = event /\ t \in o[i].to}
    IN  IF idx = {} THEN old
        ELSE o[CHOOSE i \in idx : \A j \in idx : j <= i].payload

Receive(o) ==
    /\ lastNewRound' = [t \in Sockets |-> LastOf(o, t, "newRound", lastNewRound[t])]
    /\ lastUpdatePlayers' =
           [t \in Sockets |-> LastOf(o, t, "updatePlayers", lastUpdatePlayers[t])]
    /\ gotGameOver' =
           [t \in Sockets |->
               IF \E i \in 1..Len(o) : o[i].event = "gameOver" /\ t \in o[i].to
               THEN TRUE ELSE gotGameOver[t]]
    /\ out' = o
    /\ steps < MaxSteps
    /\ steps' = steps + 1

\* ---------------------------------------------------------------------
\* Init and the handlers
\* ---------------------------------------------------------------------
ServerInit ==
    /\ failed = FALSE
    /\ status = [s \in Sockets |-> "none"]
    /\ currentRoom = [s \in Sockets |-> Null]
    /\ joined = [s \in Sockets |-> {}]
    /\ rooms = NoRooms
    /\ timers = <<>>
    /\ lastNewRound = [s \in Sockets |-> NoPayload]
    /\ lastUpdatePlayers = [s \in Sockets |-> NoPayload]
    /\ gotGameOver = [s \in Sockets |-> FALSE]
    /\ ev = [type |-> "init"]
    /\ steps = 0
    /\ out = <<>>

Init ==
    /\ ServerInit
    /\ gen = [pc |-> "idle"]

\* io.on('connection'): a new socket, its currentRoom is null
Connect(s) ==
    /\ ~failed
    /\ status[s] = "none"
    /\ status' = [status EXCEPT ![s] = "open"]
    /\ currentRoom' = [currentRoom EXCEPT ![s] = Null]
    /\ ev' = [type |-> "connection", sock |-> s]
    /\ Receive(<<>>)
    /\ UNCHANGED <<failed, joined, rooms, timers, gen>>

\* socket.on('createRoom')
CreateRoom(s, name) ==
    /\ ~failed
    /\ status[s] = "open"
    /\ \E roomCode \in CodeDraws, gs \in GeneratedStates :
          /\ ~CodeTaken(roomCode)
          /\ LET players == (s :> NewPlayer(s, name))
                 jn == [joined EXCEPT ![s] = @ \cup {roomCode}]
                 to == Members(jn, status, roomCode)
             IN  /\ currentRoom' = [currentRoom EXCEPT ![s] = roomCode]
                 /\ joined' = jn
                 /\ rooms' = Put(rooms, roomCode, WithRound(NewRoom(players), gs))
                 /\ ev' = [type |-> "createRoom", sock |-> s, code |-> roomCode]
                 /\ Receive(<< Msg({s}, "roomJoined", Null, [code |-> roomCode]),
                               Msg(to, "updatePlayers", roomCode, players),
                               Msg(to, "newRound", roomCode, RoundPayload(gs)) >>)
    /\ UNCHANGED <<failed, status, timers, gen>>

\* faulty variant of RoomNotFound: currentRoom is assigned before the lookup
RoomNotFound_Binds(s, roomCode) ==
    /\ Receive(<< Msg({s}, "error", Null, [text |-> "Room not found."]) >>)
    /\ currentRoom' = [currentRoom EXCEPT ![s] = roomCode]
    /\ UNCHANGED <<joined, rooms>>

\* if (!room) return socket.emit('error', 'Room not found.')
RoomNotFound(s, roomCode) ==
    /\ Receive(<< Msg({s}, "error", Null, [text |-> "Room not found."]) >>)
    /\ UNCHANGED <<currentRoom, joined, rooms>>

\* socket.on('joinRoom')
JoinRoom(s, roomCode, name) ==
    /\ ~failed
    /\ status[s] = "open"
    /\ ev' = [type |-> "joinRoom", sock |-> s, code |-> roomCode]
    /\ IF ~RoomExists(roomCode)
       THEN RoomNotFound(s, roomCode)
       ELSE LET room == rooms[roomCode]
                players == Put(room.players, s, NewPlayer(s, name))
                jn == [joined EXCEPT ![s] = @ \cup {roomCode}]
                to == Members(jn, status, roomCode)
            IN  /\ currentRoom' = [currentRoom EXCEPT ![s] = roomCode]
                /\ joined' = jn
                /\ rooms' = [rooms EXCEPT ![roomCode].players = players]
                /\ Receive(<< Msg({s}, "roomJoined", Null, [code |-> roomCode]),
                              Msg({s}, "newRound", Null, room.gameState),
                              Msg(to, "updatePlayers", roomCode, players) >>)
    /\ UNCHANGED <<failed, status, timers, gen>>

\* faulty variant of IsSlopeMatch: the tolerance is inclusive
IsSlopeMatch_Inclusive(gs, g) ==
    LET x == gs.currentAlien.x
        rise == gs.currentAlien.y - gs.cannonYIntercept
    IN  /\ x # 0
        /\ Abs(KScale * rise - g * x) * 100 <= KScale * Abs(x)

\* Math.abs(alienSlope - k) < 0.01 with alienSlope = (y - b) / x and the guess
\* k = g / 1000, over the rationals: |1000 (y - b) - g x| < 10 |x|.  With
\* x = 0 the quotient is an infinity or NaN and the comparison is false.
IsSlopeMatch(gs, g) ==
    LET x == gs.currentAlien.x
        rise == gs.currentAlien.y - gs.cannonYIntercept
    IN  /\ x # 0
        /\ Abs(KScale * rise - g * x) * 100 < KScale * Abs(x)

AlienSlope(gs) ==
    [num |-> gs.currentAlien.y - gs.cannonYIntercept, den |-> gs.currentAlien.x]

\* faulty variant of Missed: a Miss also takes the shooter's score
Missed_ScoreLost(players, s) ==
    [players EXCEPT ![s].lives = @ - 1, ![s].score = 0]

\* player.score++ and player.lives-- on the shooter's record of the roster
Scored(players, s) == [players EXCEPT ![s].score = @ + 1]
Missed(players, s) == [players EXCEPT ![s].lives = @ - 1]

\* faulty variant of ShotIgnored: a player without lives is still judged
ShotIgnored_LivesNotChecked(s) ==
    \/ ~RoomExists(currentRoom[s])
    \/ s \notin DOMAIN rooms[currentRoom[s]].players

\* the early returns of the shoot handler
ShotIgnored(s) ==
    \/ ~RoomExists(currentRoom[s])
    \/ s \notin DOMAIN rooms[currentRoom[s]].players
    \/ rooms[currentRoom[s]].players[s].lives <= 0

\* socket.on('shoot')
Shoot(s, k) ==
    /\ ~failed
    /\ status[s] = "open"
    /\ ev' = [type |-> "shoot", sock |-> s, k |-> k, code |-> currentRoom[s]]
    /\ IF ShotIgnored(s)
       THEN /\ Receive(<<>>)
            /\ UNCHANGED <<rooms, timers>>
       ELSE LET c == currentRoom[s]
                room == rooms[c]
                player == room.players[s]
                to == Members(joined, status, c)
            IN  IF IsSlopeMatch(room.gameState, k)
                THEN /\ player.score < MaxScore
                     /\ Len(timers) < MaxTimers
                     /\ LET players == Scored(room.players, s)
                        IN  /\ rooms' = [rooms EXCEPT ![c].players = players]
                            /\ Receive(<< Msg(to, "hit", c,
                                              [playerId |-> player.id,
                                               playerName |-> player.name,
                                               alien |-> room.gameState.currentAlien]),
                                          Msg(to, "updatePlayers", c, players) >>)
                     /\ timers' = Append(timers, [sock |-> s, boundAt |-> c])
                ELSE /\ LET players == Missed(room.players, s)
                            miss == << Msg({s}, "myMiss", Null,
                                           [yourSlope |-> k,
                                            correctSlope |-> AlienSlope(room.gameState),
                                            lives |-> players[s].lives]),
                                       Msg(to, "updatePlayers", c, players) >>
                        IN  /\ rooms' = [rooms EXCEPT ![c].players = players]
                            /\ Receive(IF players[s].lives <= 0
                                       THEN Append(miss, Msg({s}, "gameOver", Null, NoPayload))
                                       ELSE miss)
                     /\ UNCHANGED timers
    /\ UNCHANGED <<failed, status, currentRoom, joined, gen>>

\* faulty variant of AfterDisconnect: the emptied room stays in the registry
AfterDisconnect_KeepsRoom(s) ==
    LET c == currentRoom[s]
    IN  IF ~RoomExists(c) THEN rooms
        ELSE [rooms EXCEPT ![c].players = Del(rooms[c].players, s)]

\* the registry after the disconnect handler of s
AfterDisconnect(s) ==
    LET c == currentRoom[s]
    IN  IF ~RoomExists(c) THEN rooms
        ELSE LET players == Del(rooms[c].players, s)
             IN  IF Cardinality(DOMAIN players) = 0
                 THEN Del(rooms, c)
                 ELSE [rooms EXCEPT ![c].players = players]

\* socket.on('disconnect'): the socket has left its socket.io rooms
Disconnect(s) ==
    /\ ~failed
    /\ status[s] = "open"
    /\ status' = [status EXCEPT ![s] = "closed"]
    /\ joined' = [joined EXCEPT ![s] = {}]
    /\ rooms' = AfterDisconnect(s)
    /\ ev' = [type |-> "disconnect", sock |-> s, code |-> currentRoom[s]]
    /\ LET c == currentRoom[s]
       IN  IF RoomExists(c) /\ c \in DOMAIN rooms'
           THEN Receive(<< Msg(Members(joined', status', c), "updatePlayers", c,
                               rooms'[c].players) >>)
           ELSE Receive(<<>>)
    /\ UNCHANGED <<failed, currentRoom, timers, gen>>

\* startNewRound(roomCode) finds rooms[roomCode] undefined: the assignment to
\* its gameState throws a TypeError, nothing catches it and the process ends
\* (the registry and every connection go with it)
Crash ==
    /\ failed' = TRUE
    /\ rooms' = NoRooms
    /\ status' = [t \in Sockets |-> IF status[t] = "open" THEN "closed" ELSE status[t]]
    /\ joined' = [t \in Sockets |-> {}]
    /\ timers' = <<>>
    /\ Receive(<<>>)
    /\ UNCHANGED currentRoom

\* startNewRound(roomCode) on a room of the registry
StartNewRound(roomCode, gs) ==
    /\ rooms' = [rooms EXCEPT ![roomCode] = WithRound(@, gs)]
    /\ Receive(<< Msg(Members(joined, status, roomCode), "newRound", roomCode,
                      RoundPayload(gs)) >>)

\* the callback of setTimeout(() => startNewRound(currentRoom), 1500): equal
\* delays fire in the order they were set, and the closure reads currentRoom
\* when it runs
TimerFire ==
    /\ ~failed
    /\ timers # <<>>
    /\ UNCHANGED gen
    /\ LET t == Head(timers)
           roomCode == currentRoom[t.sock]
       IN  /\ ev' = [type |-> "timer", sock |-> t.sock, boundAt |-> t.boundAt,
                     code |-> roomCode]
           /\ IF RoomExists(roomCode)
              THEN /\ \E gs \in GeneratedStates : StartNewRound(roomCode, gs)
                   /\ timers' = Tail(timers)
                   /\ UNCHANGED <<failed, status, currentRoom, joined>>
              ELSE Crash

Next ==
    \/ \E s \in Sockets : Connect(s)
    \/ \E s \in Sockets, name \in Names : CreateRoom(s, name)
    \/ \E s \in Sockets, roomCode \in CodeDraws, name \in Names : JoinRoom(s, roomCode, name)
    \/ \E s \in Sockets, k \in Guesses : Shoot(s, k)
    \/ \E s \in Sockets : Disconnect(s)
    \/ TimerFire

Spec == Init /\ [][Next]_vars

\* ---------------------------------------------------------------------
\* createNewGameState and the slope comparison on their own, over every
\* value the random draws can take
\* ---------------------------------------------------------------------
\* Math.floor(Math.random() * (gridMax * 2 - 1)) - (gridMax - 1), Math.random() in [0, 1)
InterceptRange == (-(gridMax - 1))..(gridMax - 1)

\* Math.round((Math.random() * 10000) - 5000), Math.random() in [0, 1)
KRange == (-KShift)..(KSpan - KShift)

\* Math.floor(Math.random() * possibleTargets.length), Math.random() in [0, 1)
TargetIndexes(n) == IF n = 0 THEN {0} ELSE 0..(n - 1)

\* a[i] of a JavaScript array (0-based): undefined beyond its length
Undefined == [undefined |-> TRUE]
ElementAt(a, i) == IF (i + 1) \in DOMAIN a THEN a[i + 1] ELSE Undefined

\* faulty variant of MustRetry: an empty list is not retried
MustRetry_Never(possibleTargets) == FALSE

\* if (possibleTargets.length === 0) return createNewGameState()
MustRetry(possibleTargets) == Len(possibleTargets) = 0

\* guesses k sent to the shoot handler, in thousandths, as offsets from k_int
GuessOffsets == {-20, -10, -9, 0, 9, 10, 20}

GenInit ==
    /\ ServerInit
    /\ gen = [pc |-> "start", retried |-> FALSE]

\* lines 108-110: the draw of cannonYIntercept; k_int is 0
GenDrawIntercept ==
    /\ gen.pc = "start"
    /\ \E b \in InterceptRange :
          gen' = [pc |-> "intercept", cannonYIntercept |-> b, k_int |-> 0]
    /\ UNCHANGED serverVars

\* lines 111-131: the while loop draws k_int until it is not 0 (a draw of 0
\* leaves the state as it is), then the list possibleTargets is built
GenDrawK ==
    /\ gen.pc = "intercept"
    /\ gen.k_int = 0
    /\ \E k \in KRange \ {0} :
          gen' = [pc |-> "drawn", cannonYIntercept |-> gen.cannonYIntercept,
                  k_int |-> k,
                  possibleTargets |-> PossibleTargets(gen.cannonYIntercept, k)]
    /\ UNCHANGED serverVars

\* lines 133-135: the function calls itself, and the draws start afresh
\* (retried: this call is a call the function made to itself)
GenRetry ==
    /\ gen.pc = "drawn"
    /\ MustRetry(gen.possibleTargets)
    /\ gen' = [pc |-> "start", retried |-> TRUE]
    /\ UNCHANGED serverVars

\* lines 137-143: the target is drawn from the list and the state returned
GenReturn ==
    /\ gen.pc = "drawn"
    /\ ~MustRetry(gen.possibleTargets)
    /\ \E targetIndex \in TargetIndexes(Len(gen.possibleTargets)) :
          gen' = [pc |-> "returned", k_int |-> gen.k_int,
                  possibleTargets |-> gen.possibleTargets,
                  gameState |->
                      [currentAlien |-> ElementAt(gen.possibleTargets, targetIndex),
                       cannonYIntercept |-> gen.cannonYIntercept]]
    /\ UNCHANGED serverVars

\* lines 217-219 on the returned state and a guess k_int / 1000 + d / 1000
Judge(d) ==
    /\ gen.pc = "returned"
    /\ gen' = [pc |-> "judged", k_int |-> gen.k_int,
               possibleTargets |-> gen.possibleTargets,
               gameState |-> gen.gameState,
               k |-> gen.k_int + d,
               isSlopeMatch |-> IsSlopeMatch(gen.gameState, gen.k_int + d)]
    /\ UNCHANGED serverVars

GenNext ==
    \/ GenDrawIntercept
    \/ GenDrawK
    \/ GenRetry
    \/ GenReturn
    \/ \E d \in GuessOffsets : Judge(d)

GenSpec == GenInit /\ [][GenNext]_vars

\* a draw with a non-empty list has a positive probability at every attempt,
\* so a call that draws again and again does not miss it for ever (strong
\* fairness of that draw, stated on the states it leads to)
AtDraw == gen.pc \in {"start", "intercept"}
DrewNonEmpty == gen.pc = "drawn" /\ ~MustRetry(gen.possibleTargets)

GenFairSpec ==
    /\ GenSpec
    /\ WF_vars(GenRetry)
    /\ WF_vars(GenReturn)
    /\ ([]<>AtDraw => []<>DrewNonEmpty)

\* ---------------------------------------------------------------------
\* Properties
\* ---------------------------------------------------------------------
\* the last step handled an event of this type
Handled(type) == ev'.type = type /\ steps' = steps + 1

Emitted(o, event) == {i \in 1..Len(o) : o[i].event = event}

\* every room of the registry other than c is the same after the step
OthersUnchanged(c) ==
    \A d \in DOMAIN rooms \ {c} : d \in DOMAIN rooms' /\ rooms'[d] = rooms[d]

\* C1: the delayed round start scheduled by a Hit, firing after the room it
\* was scheduled for has been deleted, is a no-op: the registry is unchanged,
\* no room is created, no newRound is emitted and no error is raised.
C1_DelayedStartIsNoOp ==
    [][ (Handled("timer") /\ ~RoomExists(ev'.boundAt))
          => /\ rooms' = rooms
             /\ Emitted(out', "newRound") = {}
             /\ failed' = FALSE ]_vars

\* C2: createRoom or joinRoom on a connection already bound to a room is
\* rejected with an AlreadyBound error: the binding, the rosters and the
\* rounds are unchanged.
C2_AlreadyBoundRejected ==
    [][ ((Handled("createRoom") \/ Handled("joinRoom")) /\ currentRoom[ev'.sock] # Null)
          => /\ currentRoom' = currentRoom
             /\ rooms' = rooms
             /\ out' = << Msg({ev'.sock}, "error", Null, [text |-> "AlreadyBound"]) >> ]_vars

\* C3: a shoot affects only the room the shooter was bound to when the shot
\* was judged: every other room is unchanged by the shoot handler and by the
\* delayed round start the Hit scheduled.
C3_ShootAffectsBoundRoomOnly ==
    [][ /\ Handled("shoot") => OthersUnchanged(currentRoom[ev'.sock])
        /\ Handled("timer") => OthersUnchanged(ev'.boundAt) ]_vars

\* no room of the registry has an empty player mapping
NoEmptyRoom == \A c \in DOMAIN rooms : DOMAIN rooms[c].players # {}

\* the disconnect of a room's last player deletes the room
LastPlayerRemovesRoom ==
    (Handled("disconnect") /\ RoomExists(ev'.code)
        /\ DOMAIN rooms[ev'.code].players \subseteq {ev'.sock})
      => ev'.code \notin DOMAIN rooms'

\* a joinRoom right after that disconnect, with the deleted room's code, fails
JoinAfterRemovalFails ==
    (ev.type = "disconnect" /\ ev.code # Null /\ ~RoomExists(ev.code)
        /\ Handled("joinRoom") /\ ev'.code = ev.code)
      => /\ rooms' = rooms
         /\ out' = << Msg({ev'.sock}, "error", Null, [text |-> "Room not found."]) >>

\* C4: no room of the registry has an empty player mapping; the disconnect
\* that removes a room's last player removes the room, and a joinRoom with
\* that code right after it fails with room-not-found.
C4_EmptyRoomIsRemoved ==
    /\ []NoEmptyRoom
    /\ [][LastPlayerRemovesRoom /\ JoinAfterRemovalFails]_vars

\* a join that failed on the code of a room whose last player has
\* disconnected
C4_Witness ==
    /\ ev.type = "joinRoom"
    /\ ~RoomExists(ev.code)
    /\ Emitted(out, "error") # {}
    /\ \E s \in Sockets : status[s] = "closed" /\ currentRoom[s] = ev.code

C6_FreshFourDigitCode ==
    [][ Handled("createRoom")
          => /\ ev'.code \in 1000..9999
             /\ ~RoomExists(ev'.code)
             /\ ev'.code \in DOMAIN rooms'
             /\ OthersUnchanged(ev'.code) ]_vars

\* a room created under the code of a room that was deleted before: the
\* other socket disconnected while bound to that code
C6_Witness ==
    /\ ev.type = "createRoom"
    /\ DOMAIN rooms[ev.code].players = {ev.sock}
    /\ \E s \in Sockets \ {ev.sock} : status[s] = "closed" /\ currentRoom[s] = ev.code

\* C7: a player whose lives reach 0 receives exactly one gameOver notice, on
\* the Miss that takes lives from 1 to 0, and every later shoot from that
\* player is ignored: no score or lives change, no message, no timer.
C7_GameOverOnceThenIgnored ==
    [][ /\ \A t \in Sockets :
              (\E i \in Emitted(out', "gameOver") : t \in out'[i].to)
                => /\ ~gotGameOver[t]
                   /\ Handled("shoot") /\ ev'.sock = t
                   /\ rooms[currentRoom[t]].players[t].lives = 1
                   /\ rooms'[currentRoom[t]].players[t].lives = 0
        /\ (Handled("shoot") /\ gotGameOver[ev'.sock])
              => (rooms' = rooms /\ out' = <<>> /\ timers' = timers) ]_vars

\* C8: every newRound message has the payload shape {alien: {x, y}, b},
\* alien being the room's current target and b its intercept.
C8_NewRoundShape ==
    \A i \in Emitted(out, "newRound") :
        /\ DOMAIN out[i].payload = {"alien", "b"}
        /\ \E c \in DOMAIN rooms :
              /\ out[i].payload.alien = rooms[c].gameState.currentAlien
              /\ out[i].payload.b = rooms[c].gameState.cannonYIntercept

\* the target and intercept a newRound payload carries, whatever its field names
Carried(p) ==
    IF "alien" \in DOMAIN p
    THEN [currentAlien |-> p.alien, cannonYIntercept |-> p.b]
    ELSE p

\* C9: between handlers, every connected session bound to a room R has a
\* view consistent with R: its last newRound carries R's round, its last
\* updatePlayers is R's player mapping, and it receives no broadcast of
\* another room.
C9_ViewsConsistent ==
    \A s \in Sockets :
        (status[s] = "open" /\ RoomExists(currentRoom[s]))
          => /\ Carried(lastNewRound[s]) = rooms[currentRoom[s]].gameState
             /\ lastUpdatePlayers[s] = rooms[currentRoom[s]].players
             /\ \A i \in 1..Len(out) :
                   (s \in out[i].to /\ out[i].room # Null)
                     => out[i].room = currentRoom[s]

\* C10: no sequence of events drives the server into a failed state.
C10_NeverFails == failed = FALSE

\* the state createNewGameState returned, once it has returned
Returned == gen.pc \in {"returned", "judged"}

\* |rise / x - g / 1000| < 1 / 100, as a two-sided bound on 1000 rise - g x
WithinTolerance(rise, x, g) ==
    /\ x # 0
    /\ IF x > 0
       THEN -10 * x < 1000 * rise - g * x /\ 1000 * rise - g * x < 10 * x
       ELSE 10 * x < 1000 * rise - g * x /\ 1000 * rise - g * x < -10 * x

\* the round of the example: target (5, 3), intercept -2
ExampleRound == [currentAlien |-> [x |-> 5, y |-> 3], cannonYIntercept |-> -2]

\* C11: a judged shot is a Hit exactly when |trueSlope - guess| < 0.01 with
\* trueSlope = (target.y - intercept) / target.x, the bound being exclusive;
\* for target (5, 3) and intercept -2 the true slope is 1.0, the guess 1.0
\* is a Hit and the guess 1.02 is a Miss.
C11_HitIffWithinTolerance ==
    gen.pc = "judged" =>
        LET gs == gen.gameState
            rise == gs.currentAlien.y - gs.cannonYIntercept
        IN  /\ gen.isSlopeMatch <=> WithinTolerance(rise, gs.currentAlien.x, gen.k)
            /\ gs = ExampleRound =>
                  /\ AlienSlope(gs).num = AlienSlope(gs).den
                  /\ gen.k = 1000 => gen.isSlopeMatch
                  /\ gen.k = 1020 => ~gen.isSlopeMatch
            /\ Abs(1000 * rise - gen.k * gs.currentAlien.x) = 10 * Abs(gs.currentAlien.x)
                  => ~gen.isSlopeMatch

\* the example round, generated, with the guess 1.02 judged a Miss
C11_Witness ==
    /\ gen.pc = "judged"
    /\ gen.gameState = ExampleRound
    /\ gen.k = 1020
    /\ ~gen.isSlopeMatch

\* C12: every round the generator returns has target.x nonzero, |target.x|
\* and |target.y| at most gridMax, and an integer intercept in
\* -(gridMax - 1) .. gridMax - 1, so the slope the judge derives is defined.
C12_RoundWithinGrid ==
    Returned =>
        LET gs == gen.gameState
        IN  /\ DOMAIN gs.currentAlien = {"x", "y"}
            /\ gs.currentAlien.x \in Int /\ gs.currentAlien.y \in Int
            /\ gs.currentAlien.x # 0
            /\ Abs(gs.currentAlien.x) <= 10
            /\ Abs(gs.currentAlien.y) <= 10
            /\ gs.cannonYIntercept \in (-9)..9
            /\ AlienSlope(gs).den # 0

\* a returned round whose target lies on the edge of the grid
C12_Witness ==
    /\ gen.pc = "returned"
    /\ Abs(gen.gameState.currentAlien.x) = gridMax
    /\ Abs(gen.gameState.currentAlien.y) = gridMax

\* C13: every returned round lies on the lattice line of its k: with
\* baseRun = 1000 / gcd(|k|, 1000) and baseRise = k / gcd(|k|, 1000) there is
\* a nonzero n, 1 <= |n| <= 2 gridMax, with target.x = n baseRun and
\* target.y = intercept + n baseRise; so (target.y - intercept) 1000 = k target.x.
C13_TargetOnLatticeLine ==
    Returned =>
        LET gs == gen.gameState
            k == gen.k_int
            g == gcd(Abs(k), 1000)
            baseRun == 1000 \div g
            baseRise == k \div g
        IN  /\ k \in ((-5000)..5000) \ {0}
            /\ g * baseRun = 1000 /\ g * baseRise = k
            /\ \E n \in ((-2 * gridMax)..(2 * gridMax)) \ {0} :
                  /\ gs.currentAlien.x = n * baseRun
                  /\ gs.currentAlien.y = gs.cannonYIntercept + n * baseRise
            /\ (gs.currentAlien.y - gs.cannonYIntercept) * 1000 = k * gs.currentAlien.x

\* a returned round on a line of negative slope with a run above 1, taken
\* on the negative side
C13_Witness ==
    /\ gen.pc = "returned"
    /\ gen.k_int = -2500
    /\ gen.gameState.currentAlien.x = -4
    /\ gen.gameState.currentAlien.y = gen.gameState.cannonYIntercept + 10

\* a returned state holds one of the points of a non-empty list
ReturnedFromList ==
    Returned =>
        /\ Len(gen.possibleTargets) > 0
        /\ \E i \in 1..Len(gen.possibleTargets) :
              gen.gameState.currentAlien = gen.possibleTargets[i]

\* an attempt is given up only on an empty list, and the next attempt draws
\* both the intercept and k again
RetryRestarts ==
    (gen.pc = "drawn" /\ gen'.pc # "returned")
      => /\ Len(gen.possibleTargets) = 0
         /\ gen'.pc = "start"
         /\ DOMAIN gen' = {"pc", "retried"}

\* C17: the retry loop ends under fair random choice: a call returns in the
\* end, an attempt with an empty list restarts from fresh draws, and a state
\* is returned only with a target of a non-empty list.
C17_RetryTerminates ==
    /\ []ReturnedFromList
    /\ [][RetryRestarts]_vars
    /\ (gen.pc = "start") ~> (gen.pc = "returned")

\* an attempt with an empty list has been given up and the call draws again
C17_Witness ==
    /\ gen.pc = "start"
    /\ gen.retried

\* C14: a judged shot changes one field of the shooter's record by one: a Hit
\* adds 1 to the score, a Miss takes 1 from the lives; the shooter's other
\* fields, every other record, the roster's membership, the room's round and
\* every other room are unchanged; the new roster is broadcast to the room,
\* and myMiss (guess, true slope, remaining lives) goes to the shooter only.
C14_ShootChangesOneField ==
    [][(Handled("shoot") /\ ~ShotIgnored(ev'.sock)) =>
          LET s == ev'.sock
              c == ev'.code
              old == rooms[c].players
              new == rooms'[c].players
              hit == Emitted(out', "hit") # {}
              miss == Emitted(out', "myMiss") # {}
          IN  /\ hit # miss
              /\ hit <=> IsSlopeMatch(rooms[c].gameState, ev'.k)
              /\ DOMAIN rooms' = DOMAIN rooms
              /\ OthersUnchanged(c)
              /\ rooms'[c].gameState = rooms[c].gameState
              /\ DOMAIN new = DOMAIN old
              /\ \A t \in DOMAIN old \ {s} : new[t] = old[t]
              /\ hit => new[s] = [old[s] EXCEPT !.score = old[s].score + 1]
              /\ miss => new[s] = [old[s] EXCEPT !.lives = old[s].lives - 1]
              /\ \E i \in Emitted(out', "updatePlayers") :
                    /\ out'[i].to = Members(joined, status, c)
                    /\ out'[i].payload = new
              /\ \A i \in Emitted(out', "myMiss") :
                    /\ out'[i].to = {s}
                    /\ out'[i].payload =
                          [yourSlope |-> ev'.k,
                           correctSlope |-> AlienSlope(rooms[c].gameState),
                           lives |-> new[s].lives]
    ]_vars

\* a Hit by a player who has missed before, in a room with a second player
C14_Witness ==
    /\ ev.type = "shoot"
    /\ Emitted(out, "hit") # {}
    /\ RoomExists(ev.code)
    /\ Cardinality(DOMAIN rooms[ev.code].players) = 2
    /\ rooms[ev.code].players[ev.sock].lives = StartLives - 1
    /\ rooms[ev.code].players[ev.sock].score = StartScore + 1

\* every room of the registry holds a generated round
HasRound ==
    \A c \in DOMAIN rooms :
        /\ rooms[c].gameState # NoRound
        /\ DOMAIN rooms[c].gameState = {"currentAlien", "cannonYIntercept"}
        /\ DOMAIN rooms[c].gameState.currentAlien = {"x", "y"}

\* a joiner is sent the room's round, a shot finds one
RoundFound ==
    /\ (Handled("joinRoom") /\ Emitted(out', "roomJoined") # {}) =>
          \E i \in Emitted(out', "newRound") :
              /\ out'[i].to = {ev'.sock}
              /\ out'[i].payload = rooms[ev'.code].gameState
              /\ out'[i].payload # NoRound
    /\ (Handled("shoot") /\ RoomExists(ev'.code)) =>
          rooms[ev'.code].gameState # NoRound

\* C15: between handlers every room of the registry has a current round (the
\* null gameState of a new room is replaced before createRoom returns), so a
\* joiner is always sent a round and a shot never finds a room without one.
C15_RoomAlwaysHasRound ==
    /\ []HasRound
    /\ [][RoundFound]_vars

\* a second player has joined a room and been sent its round
C15_Witness ==
    /\ ev.type = "joinRoom"
    /\ Emitted(out, "roomJoined") # {}
    /\ RoomExists(ev.code)
    /\ Cardinality(DOMAIN rooms[ev.code].players) = 2

\* C16: when the delay set by a Hit elapses and the room the Hit was judged
\* in still exists, a newly generated round is stored as that room's round
\* and broadcast as newRound to that room, whether or not the scorer is
\* still connected.
C16_HitStartsNextRound ==
    [][(Handled("timer") /\ RoomExists(ev'.boundAt)) =>
          LET c == ev'.boundAt
          IN  /\ c \in DOMAIN rooms'
              /\ rooms'[c].gameState \in GeneratedStates
              /\ rooms'[c].players = rooms[c].players
              /\ \E i \in Emitted(out', "newRound") :
                    /\ out'[i].room = c
                    /\ out'[i].to = Members(joined, status, c)
                    /\ out'[i].payload = RoundPayload(rooms'[c].gameState)
    ]_vars

\* C18: every player record of every room has lives in 0..3 and a score of
\* at least 0: records start at lives 3 and score 0, lives never fall below
\* 0 and never exceed 3.
C18_LivesAndScoreInRange ==
    \A c \in DOMAIN rooms : \A s \in DOMAIN rooms[c].players :
        /\ rooms[c].players[s].lives \in 0..StartLives
        /\ rooms[c].players[s].score \in Nat

\* a player who has lost the last life has shot again and been ignored
C18_Witness ==
    /\ ev.type = "shoot"
    /\ out = <<>>
    /\ RoomExists(ev.code)
    /\ ev.sock \in DOMAIN rooms[ev.code].players
    /\ rooms[ev.code].players[ev.sock].lives = 0

\* C19: every player record of a roster belongs to a connection that is
\* connected and bound to that room, and no connection has a record in two
\* rooms; so a room whose connections have all disconnected is gone.
C19_RosterMatchesBindings ==
    /\ \A c \in DOMAIN rooms : \A s \in DOMAIN rooms[c].players :
          /\ status[s] = "open"
          /\ currentRoom[s] = c
    /\ \A s \in Sockets :
          Cardinality({c \in DOMAIN rooms : s \in DOMAIN rooms[c].players}) <= 1
    /\ \A c \in DOMAIN rooms : \E s \in Sockets : status[s] = "open" /\ c \in joined[s]

\* the delayed round starts set by a Hit judged in room c and not yet run
PendingFor(c) == {i \in 1..Len(timers) : timers[i].boundAt = c}

\* a shot judged while the room's next round is pending scores nothing
NoHitWhilePending ==
    (Handled("shoot") /\ RoomExists(ev'.code) /\ PendingFor(ev'.code) # {}) =>
        /\ Emitted(out', "hit") = {}
        /\ \A s \in DOMAIN rooms[ev'.code].players :
              rooms'[ev'.code].players[s].score = rooms[ev'.code].players[s].score

\* C20: a round awards at most one Hit: between a Hit and the start of the
\* room's next round no shot in the room is a Hit or adds to a score, and at
\* most one delayed round start is pending for a room.
C20_OneHitPerRound ==
    /\ [](\A c \in DOMAIN rooms : Cardinality(PendingFor(c)) <= 1)
    /\ [][NoHitWhilePending]_vars
====
